---- MODULE Spec2Model ----
(***************************************************************************)
(* Model of threeML/models/spatialModels/gaussian.py (the Gaussian and     *)
(* MultiVariateGaussian spatial models) and of threeML/plugins/HAWCLike.py *)
(* (the HAWC plugin).                                                      *)
(*                                                                         *)
(* Real numbers are kept as integers in hundredths (0.1 is 10, 1.0 is      *)
(* 100).                                                                   *)
(***************************************************************************)
EXTENDS Integers, Sequences, FiniteSets, TLC

\* ------------------------------------------------------------------ bounds
MaxCalls == 2          \* evaluations of one spatial model that are explored
MaxSetModel == 2       \* set_model calls (bridge objects) that are explored

\* Python's None (the dataset= argument of Parameter).
None == "None"

\* ===================================================================
\*  gaussian.py
\* ===================================================================

Kinds == {"Gaussian", "MultiVariateGaussian"}

\* collections.OrderedDict: a sequence of <<key, value>> pairs in insertion
\* order.  d[k] = v replaces the value of an existing key in place and
\* appends a new key at the end.
OD_Empty == << >>

OD_Keys(d) == [i \in 1..Len(d) |-> d[i][1]]

OD_Has(d, k) == \E i \in 1..Len(d) : d[i][1] = k

OD_Get(d, k) == d[CHOOSE i \in 1..Len(d) : d[i][1] = k][2]

OD_Set(d, k, v) ==
    IF OD_Has(d, k)
    THEN [i \in 1..Len(d) |-> IF d[i][1] = k THEN <<k, v>> ELSE d[i]]
    ELSE Append(d, <<k, v>>)

\* Parameter(name, value, min, max, delta, fixed=, nuisance=, dataset=) and
\* SpatialParameter(...): a named scalar with bounds and a step.  A
\* SpatialParameter is called with an energy to give the effective
\* parameter.
Parameter(name, value, minv, maxv, delta) ==
    [name |-> name, value |-> value, min |-> minv, max |-> maxv,
     delta |-> delta, fixed |-> FALSE, nuisance |-> FALSE,
     dataset |-> None, spatial |-> FALSE]

SpatialParameter(name, value, minv, maxv, delta) ==
    [Parameter(name, value, minv, maxv, delta) EXCEPT !.spatial = TRUE]

\* SpatialParameter.__call__(energy): the parameter at that energy; the
\* models read .value of the result.
AtEnergy(p, energy) == p

\* Gaussian.setup
Gaussian_setup ==
    [functionName |-> "Gaussian",
     parameters |->
        OD_Set(OD_Set(OD_Set(OD_Empty,
            "RA0", Parameter("RA0", 100, 0, 36000, 10)),
            "Dec0", Parameter("Dec0", 100, -9000, 9000, 10)),
            "sigma", SpatialParameter("sigma", 10, 0, 2000, 1)),
     ncalls |-> 0]

\* MultiVariateGaussian.setup
MultiVariateGaussian_setup ==
    [functionName |-> "Multivariate Gaussian",
     parameters |->
        OD_Set(OD_Set(OD_Set(OD_Set(OD_Set(OD_Empty,
            "RA0", Parameter("RA0", 100, 0, 36000, 10)),
            "Dec0", Parameter("Dec0", 100, -9000, 9000, 10)),
            "sigma", SpatialParameter("sigma", 10, 0, 1000, 1)),
            "eccentricity", SpatialParameter("eccentricity", 70, 0, 100, 1)),
            "angle", SpatialParameter("angle", 0, 0, 18000, 100)),
     ncalls |-> 0]

setup(k) == IF k = "Gaussian" THEN Gaussian_setup
            ELSE MultiVariateGaussian_setup

\* Names bound at module level by the import and class statements of
\* gaussian.py: "import numpy as np" binds np (not numpy), "import
\* scipy.stats" binds scipy.
ModuleGlobals ==
    {"SpatialModel", "Parameter", "SpatialParameter", "np", "scipy",
     "collections", "Gaussian", "MultiVariateGaussian"}

\* The arguments of __call__(self, RA, Dec, energy).
CallArguments == {"self", "RA", "Dec", "energy"}

\* A statement is the sequence of names it loads, in evaluation order, and
\* the local name it binds ("" for none).
Stmt(loads, binds) == [loads |-> loads, binds |-> binds]

\* Gaussian.__call__, lines 24-29.
Gaussian_body ==
    << Stmt(<<"self">>, ""),
       Stmt(<<"self">>, "RA0"),
       Stmt(<<"self">>, "Dec0"),
       Stmt(<<"self", "energy">>, "sigma"),
       Stmt(<<"numpy", "np", "np", "np", "sigma", "np", "np", "angsep",
              "RA", "Dec", "ra0", "dec0", "sigma">>, "") >>

\* MultiVariateGaussian.__call__, lines 50-62.
MultiVariateGaussian_body ==
    << Stmt(<<"self">>, ""),
       Stmt(<<"self">>, "RA0"),
       Stmt(<<"self">>, "Dec0"),
       Stmt(<<"self", "energy">>, "sigma"),
       Stmt(<<"self", "energy">>, "eccentricity"),
       Stmt(<<"np", "self", "energy">>, "angle"),
       Stmt(<<"sigma">>, "sigma_1"),
       Stmt(<<"sigma_1", "eccentricity">>, "sigma_2"),
       Stmt(<<"np", "np", "angle", "np", "angle", "np", "angle", "np",
              "angle">>, "rot"),
       Stmt(<<"np", "rot", "np", "np", "sigma_1", "sigma_2", "rot">>, "cov"),
       Stmt(<<"numpy", "np", "np", "scipy", "np", "RA", "Dec", "np", "RA0",
              "Dec0", "cov">>, "") >>

\* The first name of a sequence of loads that is bound neither locally nor
\* at module level ("" when all are bound): Python's LOAD_NAME/LOAD_GLOBAL.
RECURSIVE FirstUnbound(_, _)
FirstUnbound(loads, locals) ==
    IF loads = << >> THEN ""
    ELSE IF Head(loads) \in locals \cup ModuleGlobals
         THEN FirstUnbound(Tail(loads), locals)
         ELSE Head(loads)

\* Runs the statements in order; the name whose lookup raises NameError, or
\* "" when the body runs to its return.
RECURSIVE RunBody(_, _)
RunBody(stmts, locals) ==
    IF stmts = << >> THEN ""
    ELSE LET u == FirstUnbound(Head(stmts).loads, locals)
         IN  IF u # "" THEN u
             ELSE RunBody(Tail(stmts),
                          IF Head(stmts).binds = "" THEN locals
                          ELSE locals \cup {Head(stmts).binds})

\* The value of the return expression, numpy.maximum(<density>, 1e-30), as
\* a term over the resolved arguments (the density itself is a real number
\* far outside the integers).
Density(self, k, RA, Dec, energy) ==
    LET val(n) == AtEnergy(OD_Get(self.parameters, n), energy).value
    IN  IF k = "Gaussian"
        THEN <<"maximum",
               <<"gauss", <<"angsep", RA, Dec, val("RA0"), val("Dec0")>>,
                 val("sigma")>>,
               "1e-30">>
        ELSE <<"maximum",
               <<"multivariate_normal.pdf", <<RA, Dec>>,
                 <<val("RA0"), val("Dec0")>>,
                 <<"cov", val("sigma"), val("eccentricity"), val("angle")>> >>,
               "1e-30">>

\* self.ncalls += 1  (NcallsDouble: the counter bumped twice per call)
NcallsDouble(n) == n + 2
NcallsIncrement(n) == n + 1

\* Gaussian.__call__ / MultiVariateGaussian.__call__: the instance after the
\* call and what the call gave back (a density or the exception raised).
\* (CallAddsParameter: a call that stores the centre it read back into the
\* mapping under a new key.)
CallAddsParameter(self, k, RA, Dec, energy) ==
    LET body == IF k = "Gaussian" THEN Gaussian_body
                ELSE MultiVariateGaussian_body
        unbound == RunBody(body, CallArguments)
    IN  [self |-> [self EXCEPT !.ncalls = NcallsIncrement(@),
                               !.parameters = OD_Set(@, "ra0",
                                   Parameter("ra0", RA, 0, 36000, 10))],
         out  |-> IF unbound # ""
                  THEN [kind |-> "NameError", name |-> unbound]
                  ELSE [kind |-> "density",
                        value |-> Density(self, k, RA, Dec, energy)]]

Call(self, k, RA, Dec, energy) ==
    LET body == IF k = "Gaussian" THEN Gaussian_body
                ELSE MultiVariateGaussian_body
        unbound == RunBody(body, CallArguments)
    IN  [self |-> [self EXCEPT !.ncalls = NcallsIncrement(@)],
         out  |-> IF unbound # ""
                  THEN [kind |-> "NameError", name |-> unbound]
                  ELSE [kind |-> "density",
                        value |-> Density(self, k, RA, Dec, energy)]]

\* parameters[name].value = v, by the fit engine or sampler.
SetParameterValue(self, name, v) ==
    [self EXCEPT !.parameters =
        [i \in 1..Len(@) |->
            IF @[i][1] = name THEN <<name, [@[i][2] EXCEPT !.value = v]>>
            ELSE @[i]]]

\* Inputs explored.
SkyRA == {18000, 18100}
SkyDec == {0}
Energies == {1}
ParamValues(name) ==
    CASE name = "RA0" -> {100, 18000}
      [] name = "Dec0" -> {100, 0}
      [] name = "sigma" -> {10, 100}
      [] name = "eccentricity" -> {70, 0}
      [] name = "angle" -> {0, 9000}
      [] OTHER -> {}


\* ===================================================================
\*  HAWCLike.py
\* ===================================================================
\* An object is a record of its attributes; has is the set of attributes
\* that have been assigned (its __dict__), the others hold a filler of the
\* right type and reading them raises AttributeError.  An attribute that is
\* None or a number is a set: {} is None, {v} is v.

defaultMinChannel == 0
defaultMaxChannel == 9

\* File names: sanitize_filename expands variables and "~", os.path.abspath
\* makes the path absolute; both leave an already expanded, absolute path
\* as it is.
Path(base) == [base |-> base, expanded |-> FALSE, absolute |-> FALSE]
sanitize_filename(p) == [p EXCEPT !.expanded = TRUE]
abspath(p) == [p EXCEPT !.absolute = TRUE]
ReadableFiles == {"maptree.root", "response.root"}
file_existing_and_readable(p) == p.base \in ReadableFiles

\* The native liff_3ML.LikeHAWC object.  pymodel is the identity of the
\* pyToCppModelInterface object it was constructed with.
NoLike ==
    [id |-> 0, maptree |-> Path(""), n_transits |-> {}, response |-> Path(""),
     pymodel |-> 0, minChannel |-> 0, maxChannel |-> 0, fullsky |-> FALSE,
     roi |-> {}, commonNorm |-> 100, bkgNormFree |-> FALSE]

\* liff_3ML.LikeHAWC(maptree, [n_transits,] response, pymodel, minChannel,
\* maxChannel, fullsky)
LikeHAWC(id, maptree, n_transits, response, pymodel, minCh, maxCh, fullsky) ==
    [NoLike EXCEPT !.id = id, !.maptree = maptree, !.n_transits = n_transits,
                   !.response = response, !.pymodel = pymodel,
                   !.minChannel = minCh, !.maxChannel = maxCh,
                   !.fullsky = fullsky]

\* astromodels.Parameter("CommonNorm", 1.0, min_value=0.5, max_value=1.5,
\* delta=0.01) with its list of callbacks.
NuisanceParameter(name, value, minv, maxv, delta) ==
    [name |-> name, value |-> value, min_value |-> minv, max_value |-> maxv,
     delta |-> delta, fix |-> FALSE, callbacks |-> << >>]

\* A HAWCLike object before any attribute is assigned.
Blank ==
    [has |-> {}, fullsky |-> FALSE, name |-> "", maptree |-> Path(""),
     response |-> Path(""), instanced |-> FALSE, n_transits |-> {},
     minChannel |-> 0, maxChannel |-> 0, fitCommonNorm |-> FALSE,
     roi_ra |-> {}, roi_dec |-> 0, roi_radius |-> 0, fixedROI |-> FALSE,
     nuisanceParameters |-> OD_Empty, model |-> "", pymodel |-> 0,
     theLikeHAWC |-> NoLike]

\* One native call made by a method: its name and its numeric argument
\* (booleans as 0/1, 0 when there is none).
Ev(call, arg) == [call |-> call, arg |-> arg]
B2I(b) == IF b THEN 1 ELSE 0

\* What a method gave back: the object and the bridge objects after it, the
\* exception it raised ("" for none), the value returned and the native
\* calls it made, in order.
NoRet == [values |-> 0, norm |-> 0]
R(self, heap, exc, ret, trace) ==
    [self |-> self, heap |-> heap, exc |-> exc, ret |-> ret, trace |-> trace]

\* HAWCLike.__setup
HAWCLike__setup(self) ==
    [self EXCEPT
        !.nuisanceParameters =
            OD_Set(OD_Empty, "CommonNorm",
                   [NuisanceParameter("CommonNorm", 100, 50, 150, 1)
                        EXCEPT !.fix = TRUE]),
        !.has = @ \cup {"nuisanceParameters"}]

\* HAWCLike.deactivateCommonNorm / activateCommonNorm
deactivateCommonNorm(self) ==
    [self EXCEPT !.fitCommonNorm = FALSE, !.has = @ \cup {"fitCommonNorm"}]

activateCommonNorm(self) ==
    [self EXCEPT !.fitCommonNorm = TRUE, !.has = @ \cup {"fitCommonNorm"}]

\* HAWCLike.__init__(name, maptree, response, n_transits=None, **kwargs);
\* kwargs is the set of values given for fullsky ({} when it is not given).
HAWCLike__init__(self, heap, name, maptree, response, n_transits, kwargs) ==
    LET s1 == [self EXCEPT
                  !.fullsky = IF kwargs = {} THEN FALSE
                              ELSE CHOOSE b \in kwargs : TRUE,
                  !.name = name,
                  !.maptree = abspath(sanitize_filename(maptree)),
                  !.has = @ \cup {"fullsky", "name", "maptree"}]
        s2 == [s1 EXCEPT !.response = abspath(sanitize_filename(response)),
                         !.has = @ \cup {"response"}]
        s3 == [s2 EXCEPT !.instanced = FALSE,
                         !.n_transits = n_transits,
                         !.minChannel = defaultMinChannel,
                         !.maxChannel = defaultMaxChannel,
                         !.has = @ \cup {"instanced", "_n_transits",
                                         "minChannel", "maxChannel"}]
        s4 == [deactivateCommonNorm(s3) EXCEPT
                         !.roi_ra = {}, !.has = @ \cup {"roi_ra"}]
    IN  IF ~file_existing_and_readable(s2.maptree)
        THEN R(s2, heap, "IOError", NoRet, << >>)
        ELSE IF ~file_existing_and_readable(s2.response)
        THEN R(s2, heap, "IOError", NoRet, << >>)
        ELSE R(HAWCLike__setup(s4), heap, "", NoRet, << >>)

\* HAWCLike.setROI(ra, dec, radius, fixedROI=False)
setROI(self, ra, dec, radius, fixedROI) ==
    [self EXCEPT !.roi_ra = ra, !.roi_dec = dec, !.roi_radius = radius,
                 !.fixedROI = fixedROI,
                 !.has = @ \cup {"roi_ra", "roi_dec", "roi_radius",
                                 "fixedROI"}]

\* HAWCLike.set_active_measurements(minChannel, maxChannel); the warning on
\* stderr changes nothing.
set_active_measurements(self, minChannel, maxChannel) ==
    [self EXCEPT !.minChannel = minChannel, !.maxChannel = maxChannel,
                 !.has = @ \cup {"minChannel", "maxChannel"}]

\* pyToCppModelInterface(model): the bridge reads the model's parameter
\* values when it is built and again at every update().
pyToCppModelInterface(model, params) ==
    [model |-> model, values |-> params[model]]

pymodel_update(heap, id, params) ==
    [heap EXCEPT ![id].values = params[heap[id].model]]

\* The bridge objects still referenced by the plugin or by its LikeHAWC.
Referenced(self, heap) ==
    LET ids == (IF "pymodel" \in self.has THEN {self.pymodel} ELSE {})
               \cup (IF "theLikeHAWC" \in self.has
                     THEN {self.theLikeHAWC.pymodel} ELSE {})
    IN  [i \in (DOMAIN heap) \cap ids |-> heap[i]]

\* Parameter.add_callback(self._CommonNormCallback) on CommonNorm, line 221.
\* (AddNoCallback: the registration left out.)
AddNoCallback(self) == self
AddCommonNormCallback(self) ==
    [self EXCEPT !.nuisanceParameters =
        OD_Set(@, "CommonNorm",
               [OD_Get(@, "CommonNorm") EXCEPT
                    !.callbacks = Append(@, "_CommonNormCallback")])]

\* The except branch of set_model (lines 206-211): print and re-raise.
\* (ExceptSetsInstanced: instanced set although the construction failed.)
ExceptSetsInstanced(self) == [self EXCEPT !.instanced = TRUE]
ExceptBranch(self) == self

\* The else branch of set_model (lines 213-215).
ElseBranch(self) == [self EXCEPT !.instanced = TRUE,
                                 !.has = @ \cup {"instanced"}]

\* HAWCLike.set_model(likelihood_model_instance).  id is the identity of the
\* bridge object it creates, ctorOk whether the native constructor succeeds.
set_model(self, heap, model, params, id, ctorOk) ==
    LET s1 == [self EXCEPT !.model = model, !.pymodel = id,
                           !.has = @ \cup {"model", "pymodel"}]
        h1 == [i \in (DOMAIN heap) \cup {id} |->
                  IF i = id THEN pyToCppModelInterface(model, params)
                  ELSE heap[i]]
        s2 == [s1 EXCEPT
                  !.theLikeHAWC =
                      LikeHAWC(id, s1.maptree, s1.n_transits, s1.response, id,
                               s1.minChannel, s1.maxChannel, s1.fullsky),
                  !.has = @ \cup {"theLikeHAWC"}]
        s3 == IF s2.roi_ra # {} /\ s2.fullsky
              THEN [s2 EXCEPT !.theLikeHAWC.roi =
                       {[ra |-> s2.roi_ra, dec |-> s2.roi_dec,
                         radius |-> s2.roi_radius, fixed |-> s2.fixedROI]}]
              ELSE s2
        made == << Ev("LikeHAWC", id) >>
    IN  IF ~ctorOk
        THEN R(ExceptBranch(s1), Referenced(s1, h1), "Exception", NoRet,
               << >>)
        ELSE IF s2.roi_ra = {} /\ s2.fullsky
        THEN R(ExceptBranch(s2), Referenced(s2, h1), "RuntimeError", NoRet,
               made)
        ELSE R(AddCommonNormCallback(ElseBranch(s3)), Referenced(s3, h1), "",
               NoRet,
               IF s2.roi_ra # {} /\ s2.fullsky
               THEN Append(made, Ev("SetROI", 0)) ELSE made)

\* HAWCLike._CommonNormCallback(value)
CommonNormCallback(self, value) ==
    [self EXCEPT !.theLikeHAWC.commonNorm = value]

\* nuisanceParameters['CommonNorm'].value = v: the value is stored and every
\* registered callback is called with it.
RECURSIVE RunCallbacks(_, _, _)
RunCallbacks(self, n, value) ==
    IF n = 0 THEN self
    ELSE RunCallbacks(CommonNormCallback(self, value), n - 1, value)

SetCommonNormValue(self, value) ==
    LET cn == OD_Get(self.nuisanceParameters, "CommonNorm")
        s1 == [self EXCEPT !.nuisanceParameters =
                  OD_Set(@, "CommonNorm", [cn EXCEPT !.value = value])]
    IN  [self |-> RunCallbacks(s1, Len(cn.callbacks), value),
         trace |-> [i \in 1..Len(cn.callbacks) |-> Ev("SetCommonNorm", value)]]

\* LikeHAWC.getLogLike(fitCommonNorm) and LikeHAWC.calcTS(fitCommonNorm): the
\* native object after the call (with the norm free the native fit moves it
\* to fitted) and the value returned, which is a function of the parameter
\* values its bridge holds and of the norm.
NativeQuery(like, heap, fitCommonNorm, fitted) ==
    LET l1 == IF fitCommonNorm THEN [like EXCEPT !.commonNorm = fitted]
              ELSE like
    IN  [like |-> l1,
         ret |-> [values |-> heap[like.pymodel].values,
                  norm |-> l1.commonNorm]]

\* HAWCLike.get_log_like and HAWCLike.calcTS: update, then the native query
\* (call is "getLogLike" or "calcTS").
UpdateThenQuery(self, heap, params, fitted, call) ==
    IF "pymodel" \notin self.has
    THEN R(self, heap, "AttributeError", NoRet, << >>)
    ELSE LET h1 == pymodel_update(heap, self.pymodel, params)
             q == NativeQuery(self.theLikeHAWC, h1, self.fitCommonNorm, fitted)
         IN  IF "theLikeHAWC" \notin self.has
             THEN R(self, h1, "AttributeError", NoRet, << Ev("update", 0) >>)
             ELSE R([self EXCEPT !.theLikeHAWC = q.like], h1, "", q.ret,
                    << Ev("update", 0),
                       Ev(call, B2I(self.fitCommonNorm)) >>)

get_log_like(self, heap, params, fitted) ==
    UpdateThenQuery(self, heap, params, fitted, "getLogLike")

calcTS(self, heap, params, fitted) ==
    UpdateThenQuery(self, heap, params, fitted, "calcTS")

\* HAWCLike.inner_fit
inner_fit(self, heap, params, fitted) ==
    IF "theLikeHAWC" \notin self.has
    THEN R(self, heap, "AttributeError", NoRet, << >>)
    ELSE LET s1 == [self EXCEPT !.theLikeHAWC.bkgNormFree = self.fitCommonNorm]
             h1 == pymodel_update(heap, self.pymodel, params)
             q == NativeQuery(s1.theLikeHAWC, h1, self.fitCommonNorm, fitted)
             s2 == [s1 EXCEPT !.theLikeHAWC = q.like]
             c == SetCommonNormValue(s2, q.like.commonNorm)
         IN  R(c.self, h1, "", q.ret,
               << Ev("SetBackgroundNormFree", B2I(self.fitCommonNorm)),
                  Ev("update", 0),
                  Ev("getLogLike", B2I(self.fitCommonNorm)),
                  Ev("CommonNorm", 0) >> \o c.trace)

\* HAWCLike.__getstate__: the dictionary handed to pickle.
getstate_keys(self) ==
    {"name", "maptree", "response", "model", "n_transits", "minChannel",
     "maxChannel", "roi_ra"}
    \cup (IF self.roi_ra # {} THEN {"roi_dec", "roi_radius"} ELSE {})

HAWCLike__getstate__(self) ==
    IF "model" \notin self.has
    THEN [exc |-> "AttributeError", d |-> << >>]
    ELSE [exc |-> "",
          d |-> [k \in getstate_keys(self) |->
                   CASE k = "name" -> self.name
                     [] k = "maptree" -> self.maptree
                     [] k = "response" -> self.response
                     [] k = "model" -> self.model
                     [] k = "n_transits" -> self.n_transits
                     [] k = "minChannel" -> self.minChannel
                     [] k = "maxChannel" -> self.maxChannel
                     [] k = "roi_ra" -> self.roi_ra
                     [] k = "roi_dec" -> self.roi_dec
                     [] k = "roi_radius" -> self.roi_radius]]

\* state[k] for each k of keys in turn: the first key that raises KeyError,
\* "" when all are there.
RECURSIVE FirstMissing(_, _)
FirstMissing(keys, state) ==
    IF keys = << >> THEN ""
    ELSE IF Head(keys) \in DOMAIN state THEN FirstMissing(Tail(keys), state)
         ELSE Head(keys)

\* HAWCLike.__setstate__(state), on the object pickle has just allocated.
HAWCLike__setstate__(self, heap, state, params, id, ctorOk) ==
    LET miss1 == FirstMissing(<<"name", "maptree", "response", "ntransits">>,
                              state)
        s1 == [self EXCEPT !.n_transits = state["ntransits"],
                           !.has = @ \cup {"_n_transits"}]
        r2 == HAWCLike__init__(s1, heap, state["name"], state["maptree"],
                               state["response"], {}, {})
        miss3 == FirstMissing(<<"roi_ra">>, state)
        miss4 == FirstMissing(<<"roi_ra", "roi_dec", "roi_radius",
                                "fixedROI">>, state)
        s4 == IF state["roi_ra"] # {}
              THEN setROI(r2.self, state["roi_ra"], state["roi_dec"],
                          state["roi_radius"], state["fixedROI"])
              ELSE r2.self
        miss5 == FirstMissing(<<"minChannel", "maxChannel">>, state)
        s5 == set_active_measurements(s4, state["minChannel"],
                                      state["maxChannel"])
        miss6 == FirstMissing(<<"model">>, state)
    IN  IF miss1 # "" THEN R(self, heap, "KeyError", NoRet, << >>)
        ELSE IF r2.exc # "" THEN r2
        ELSE IF miss3 # "" THEN R(r2.self, heap, "KeyError", NoRet, << >>)
        ELSE IF state["roi_ra"] # {} /\ miss4 # ""
        THEN R(r2.self, heap, "KeyError", NoRet, << >>)
        ELSE IF miss5 # "" THEN R(s4, heap, "KeyError", NoRet, << >>)
        ELSE IF miss6 # "" THEN R(s5, heap, "KeyError", NoRet, << >>)
        ELSE set_model(s5, heap, state["model"], params, id, ctorOk)

\* Inputs explored.
Names == {"HAWC"}
MapTrees == {Path("maptree.root")}
Responses == {Path("response.root")}
Transits == {{}, {200}}
Models == {"m1"}
ModelValues == {0, 1}
NormValues == {100, 120}
Channels == {<<0, 9>>, <<1, 5>>}
ROIs == {[ra |-> {8363}, dec |-> 2201, radius |-> 300, fixed |-> FALSE],
         [ra |-> {}, dec |-> 2201, radius |-> 300, fixed |-> FALSE]}

\* No evaluation since the parameters were last set up or assigned.
NoResult == [kind |-> "none"]

VARIABLES
    inst,        \* inst[k]: the spatial model instance of kind k
    result,      \* result[k]: what the last __call__ of inst[k] gave back
                 \* under its current parameter values, and where (at)
    invoked      \* invoked[k]: __call__ invocations of inst[k] since setup

gvars == <<inst, result, invoked>>

VARIABLES
    plug,        \* the HAWCLike plugin
    bridges,     \* the pyToCppModelInterface objects of its process, by id
    created,     \* set_model calls made on plug (ids of bridges given out)
    modelParams, \* modelParams[m]: the parameter value of likelihood model m
    pickled,     \* what the last __getstate__ of plug returned
    remote,      \* the object __setstate__ rebuilds on the receiving side
    rbridges,    \* the bridge objects of the receiving side
    last         \* the last method called, with what it gave back

hvars == <<plug, bridges, created, modelParams, pickled, remote, rbridges,
           last>>

vars == <<inst, result, invoked, plug, bridges, created, modelParams,
          pickled, remote, rbridges, last>>

GInit ==
    /\ inst = [k \in Kinds |-> setup(k)]
    /\ result = [k \in Kinds |-> NoResult]
    /\ invoked = [k \in Kinds |-> 0]

\* setup() run again on an existing instance.
Setup(k) ==
    /\ inst' = [inst EXCEPT ![k] = setup(k)]
    /\ result' = [result EXCEPT ![k] = NoResult]
    /\ invoked' = [invoked EXCEPT ![k] = 0]
    /\ UNCHANGED hvars

Evaluate(k) ==
    /\ inst[k].ncalls < MaxCalls
    /\ \E RA \in SkyRA, Dec \in SkyDec, energy \in Energies :
         LET r == Call(inst[k], k, RA, Dec, energy)
         IN  /\ inst' = [inst EXCEPT ![k] = r.self]
             /\ result' = [result EXCEPT ![k] =
                    [kind |-> r.out.kind, out |-> r.out,
                     at |-> [RA |-> RA, Dec |-> Dec, energy |-> energy]]]
             /\ invoked' = [invoked EXCEPT ![k] = @ + 1]
    /\ UNCHANGED hvars

AssignValue(k) ==
    /\ \E i \in 1..Len(inst[k].parameters) :
         \E v \in ParamValues(inst[k].parameters[i][1]) :
            inst' = [inst EXCEPT ![k] =
                        SetParameterValue(@, inst[k].parameters[i][1], v)]
    /\ result' = [result EXCEPT ![k] = NoResult]
    /\ UNCHANGED invoked
    /\ UNCHANGED hvars

GNext == \E k \in Kinds : Setup(k) \/ Evaluate(k) \/ AssignValue(k)

\* ------------------------------------------------------- HAWCLike actions
\* The record of a call: the method, the object, the exception raised (""
\* for none), the value returned, the native calls made, whether the native
\* constructor succeeded when one was called, and the parameter value the
\* plugin's likelihood model had during the call.
Last(op, on, r, ctorOk) ==
    [op |-> op, on |-> on, exc |-> r.exc, ret |-> r.ret, trace |-> r.trace,
     ctorOk |-> ctorOk,
     current |-> IF "model" \in r.self.has THEN modelParams[r.self.model]
                 ELSE 0]

\* A method that returns None and calls nothing native.
Done(self) == R(self, bridges, "", NoRet, << >>)

\* The plugin as its constructor leaves it, for n_transits and fullsky=
\* drawn from the given sets.
HStart(transits, fullskys) ==
    /\ \E name \in Names, maptree \in MapTrees, response \in Responses,
          n_transits \in transits, kwargs \in fullskys :
         plug = HAWCLike__init__(Blank, << >>, name, maptree, response,
                                 n_transits, kwargs).self
    /\ bridges = << >>
    /\ created = 0
    /\ modelParams = [m \in Models |-> 0]
    /\ pickled = [made |-> FALSE, d |-> << >>]
    /\ remote = Blank
    /\ rbridges = << >>
    /\ last = Last("__init__", "plug", R(Blank, << >>, "", NoRet, << >>), TRUE)

SetROI ==
    /\ \E roi \in ROIs :
         plug' = setROI(plug, roi.ra, roi.dec, roi.radius, roi.fixed)
    /\ last' = Last("setROI", "plug", Done(plug), TRUE)
    /\ UNCHANGED <<bridges, created, modelParams, pickled, remote, rbridges>>
    /\ UNCHANGED gvars

SetActiveMeasurements ==
    /\ \E c \in Channels : plug' = set_active_measurements(plug, c[1], c[2])
    /\ last' = Last("set_active_measurements", "plug", Done(plug), TRUE)
    /\ UNCHANGED <<bridges, created, modelParams, pickled, remote, rbridges>>
    /\ UNCHANGED gvars

ActivateCommonNorm ==
    /\ plug' = activateCommonNorm(plug)
    /\ last' = Last("activateCommonNorm", "plug", Done(plug), TRUE)
    /\ UNCHANGED <<bridges, created, modelParams, pickled, remote, rbridges>>
    /\ UNCHANGED gvars

DeactivateCommonNorm ==
    /\ plug' = deactivateCommonNorm(plug)
    /\ last' = Last("deactivateCommonNorm", "plug", Done(plug), TRUE)
    /\ UNCHANGED <<bridges, created, modelParams, pickled, remote, rbridges>>
    /\ UNCHANGED gvars

SetModel ==
    /\ created < MaxSetModel
    /\ \E m \in Models, ctorOk \in BOOLEAN :
         LET r == set_model(plug, bridges, m, modelParams, created + 1, ctorOk)
         IN  /\ plug' = r.self
             /\ bridges' = r.heap
             /\ last' = Last("set_model", "plug", r, ctorOk)
    /\ created' = created + 1
    /\ UNCHANGED <<modelParams, pickled, remote, rbridges>>
    /\ UNCHANGED gvars

GetLogLike ==
    /\ \E fitted \in NormValues :
         LET r == get_log_like(plug, bridges, modelParams, fitted)
         IN  /\ plug' = r.self
             /\ bridges' = r.heap
             /\ last' = Last("get_log_like", "plug", r, TRUE)
    /\ UNCHANGED <<created, modelParams, pickled, remote, rbridges>>
    /\ UNCHANGED gvars

CalcTS ==
    /\ \E fitted \in NormValues :
         LET r == calcTS(plug, bridges, modelParams, fitted)
         IN  /\ plug' = r.self
             /\ bridges' = r.heap
             /\ last' = Last("calcTS", "plug", r, TRUE)
    /\ UNCHANGED <<created, modelParams, pickled, remote, rbridges>>
    /\ UNCHANGED gvars

InnerFit ==
    /\ \E fitted \in NormValues :
         LET r == inner_fit(plug, bridges, modelParams, fitted)
         IN  /\ plug' = r.self
             /\ bridges' = r.heap
             /\ last' = Last("inner_fit", "plug", r, TRUE)
    /\ UNCHANGED <<created, modelParams, pickled, remote, rbridges>>
    /\ UNCHANGED gvars

\* The user, the fit engine or the sampler assigns CommonNorm.value.
AssignCommonNorm ==
    /\ \E v \in NormValues :
         LET c == SetCommonNormValue(plug, v)
         IN  /\ plug' = c.self
             /\ last' = Last("CommonNorm.value", "plug",
                             R(c.self, bridges, "", NoRet, c.trace), TRUE)
    /\ UNCHANGED <<bridges, created, modelParams, pickled, remote, rbridges>>
    /\ UNCHANGED gvars

\* The fit engine moves a parameter of a likelihood model.
ChangeModelParameter ==
    /\ \E m \in Models, v \in ModelValues :
         modelParams' = [modelParams EXCEPT ![m] = v]
    /\ UNCHANGED <<plug, bridges, created, pickled, remote, rbridges, last>>
    /\ UNCHANGED gvars

GetState ==
    /\ LET g == HAWCLike__getstate__(plug)
       IN  /\ pickled' = IF g.exc = "" THEN [made |-> TRUE, d |-> g.d]
                         ELSE pickled
           /\ last' = Last("__getstate__", "plug",
                           R(plug, bridges, g.exc, NoRet, << >>), TRUE)
    /\ UNCHANGED <<plug, bridges, created, modelParams, remote, rbridges>>
    /\ UNCHANGED gvars

\* pickle allocates a new object on the receiving side and hands the
\* dictionary to its __setstate__.
SetState ==
    /\ pickled.made
    /\ \E ctorOk \in BOOLEAN :
         LET r == HAWCLike__setstate__(Blank, << >>, pickled.d, modelParams,
                                       1, ctorOk)
         IN  /\ remote' = r.self
             /\ rbridges' = r.heap
             /\ last' = Last("__setstate__", "remote", r, ctorOk)
    /\ UNCHANGED <<plug, bridges, created, modelParams, pickled>>
    /\ UNCHANGED gvars

\* A fit: the plugin is configured, given a model and queried.
HNext ==
    \/ SetROI
    \/ ActivateCommonNorm
    \/ DeactivateCommonNorm
    \/ SetModel
    \/ GetLogLike
    \/ CalcTS
    \/ InnerFit
    \/ AssignCommonNorm
    \/ ChangeModelParameter

\* Pickling: a plugin is configured, given a model, pickled and rebuilt.
PNext ==
    \/ SetROI
    \/ SetActiveMeasurements
    \/ SetModel
    \/ GetState
    \/ SetState

Init == GInit /\ HStart(Transits, {{}, {TRUE}})

\* The spatial models, beside a plugin that is left alone.
InitG == GInit /\ HStart({{}}, {{}})

SpecG == InitG /\ [][GNext]_vars

\* The plugin in a fit, beside spatial models that are left alone.
InitH == GInit /\ HStart({{}}, {{}, {TRUE}})

SpecH == InitH /\ [][HNext]_vars

\* The plugin pickled and rebuilt.
SpecP == Init /\ [][PNext]_vars

\* ===================================================================
\*  Properties
\* ===================================================================

ParameterNames(k) ==
    IF k = "Gaussian" THEN <<"RA0", "Dec0", "sigma">>
    ELSE <<"RA0", "Dec0", "sigma", "eccentricity", "angle">>

ValueOf(k, name) == OD_Get(inst[k].parameters, name).value

\* C1: for both Gaussian and MultiVariateGaussian, ncalls is 0 after setup
\* and every __call__ invocation adds exactly 1 to it, so that after n
\* invocations since setup ncalls = n.
C1_CallCounter == \A k \in Kinds : inst[k].ncalls = invoked[k]

C1_Witness == \A k \in Kinds : invoked[k] = MaxCalls /\ inst[k].ncalls >= 2

\* C2: every evaluation of the circular and of the elliptical model returns
\* a value, and that value is the computed density clamped to the floor
\* 1e-30.
C2_ReturnsClampedDensity ==
    \A k \in Kinds :
        result[k].kind # "none" =>
            /\ result[k].kind = "density"
            /\ result[k].out.value[1] = "maximum"
            /\ result[k].out.value[3] = "1e-30"

\* C3: no evaluation of the circular or of the elliptical model ends in an
\* error raised inside __call__.
C3_NoFailure == \A k \in Kinds : result[k].kind # "NameError"

\* C4: the parameter mapping of an instance holds exactly the names given at
\* setup, in that order, with the bounds and steps given at setup: calls and
\* value assignments change parameter values only.
C4_ParametersFixed ==
    \A k \in Kinds :
        /\ OD_Keys(inst[k].parameters) = ParameterNames(k)
        /\ \A i \in 1..Len(inst[k].parameters) :
              [inst[k].parameters[i][2] EXCEPT !.value = 0]
                  = [setup(k).parameters[i][2] EXCEPT !.value = 0]

C4_Witness ==
    \A k \in Kinds :
        /\ inst[k].ncalls >= 1
        /\ result[k].kind # "none"
        /\ ValueOf(k, "RA0") = 18000
        /\ ValueOf(k, "sigma") = 100

\* C5: with eccentricity = 0 and angle = 0 and the same RA0, Dec0 and sigma,
\* the elliptical model evaluated at a point returns the density the
\* circular model returns there.  (Stated through what it requires of the
\* two calls: each returns a density, computed for the same point, centre
\* and width.)
SameInputs ==
    /\ result["Gaussian"].kind # "none"
    /\ result["MultiVariateGaussian"].kind # "none"
    /\ result["Gaussian"].at = result["MultiVariateGaussian"].at
    /\ \A n \in {"RA0", "Dec0", "sigma"} :
          ValueOf("Gaussian", n) = ValueOf("MultiVariateGaussian", n)
    /\ ValueOf("MultiVariateGaussian", "eccentricity") = 0
    /\ ValueOf("MultiVariateGaussian", "angle") = 0

C5_EllipticalReducesToCircular ==
    SameInputs =>
        /\ result["Gaussian"].kind = "density"
        /\ result["MultiVariateGaussian"].kind = "density"
        /\ result["Gaussian"].out.value[2][2][4]
              = result["MultiVariateGaussian"].out.value[2][3][1]
        /\ result["Gaussian"].out.value[2][3]
              = result["MultiVariateGaussian"].out.value[2][4][2]

\* C6: for fixed parameters the value returned strictly decreases with the
\* angular separation from the centre.  On the equator (Dec = Dec0 = 0) the
\* separation of (RA, 0) from (RA0, 0) is |RA - RA0|.  (Stated through what
\* it requires: the evaluation made and the evaluation at any point farther
\* from the centre both return densities, and these differ.)
Separation(k, RA) ==
    IF RA >= ValueOf(k, "RA0") THEN RA - ValueOf(k, "RA0")
    ELSE ValueOf(k, "RA0") - RA

C6_StrictDecay ==
    \A k \in Kinds : \A RA2 \in SkyRA :
        ( /\ result[k].kind # "none"
          /\ result[k].at.Dec = 0
          /\ ValueOf(k, "Dec0") = 0
          /\ Separation(k, result[k].at.RA) < Separation(k, RA2) )
        => LET farther == Call(inst[k], k, RA2, 0, result[k].at.energy).out
           IN  /\ result[k].kind = "density"
               /\ farther.kind = "density"
               /\ farther.value # result[k].out.value

\* C7: __setstate__ applied to what __getstate__ returned for a plugin with
\* a model set succeeds and rebuilds a plugin with the same name, maptree,
\* response, number of transits, channel range, ROI (when one was set) and
\* model, with its LikeHAWC object created on the receiving side.
C7_PickleRoundTrip ==
    (last.op = "__setstate__" /\ last.ctorOk) =>
        /\ last.exc = ""
        /\ remote.name = pickled.d["name"]
        /\ remote.maptree = pickled.d["maptree"]
        /\ remote.response = pickled.d["response"]
        /\ remote.n_transits = pickled.d["n_transits"]
        /\ remote.minChannel = pickled.d["minChannel"]
        /\ remote.maxChannel = pickled.d["maxChannel"]
        /\ remote.roi_ra = pickled.d["roi_ra"]
        /\ (pickled.d["roi_ra"] # {} =>
               /\ remote.roi_dec = pickled.d["roi_dec"]
               /\ remote.roi_radius = pickled.d["roi_radius"])
        /\ remote.model = pickled.d["model"]
        /\ "theLikeHAWC" \in remote.has
        /\ remote.instanced

\* C8: every call of get_log_like, calcTS and inner_fit calls
\* pymodel.update() before it queries the native likelihood, and the value
\* it returns is the likelihood of the model's current parameter values.
LikelihoodQueries == {"getLogLike", "calcTS", "CommonNorm"}

UpdatePrecedesQueries(trace) ==
    \A i \in 1..Len(trace) :
        trace[i].call \in LikelihoodQueries =>
            \E j \in 1..(i - 1) : trace[j].call = "update"

C8_CurrentLikelihood ==
    last.op \in {"get_log_like", "calcTS", "inner_fit"} =>
        /\ UpdatePrecedesQueries(last.trace)
        /\ last.exc = "" => last.ret.values = last.current

\* The order alone holds in every call, and the value returned is the
\* current one whenever the LikeHAWC object held was built around the bridge
\* the plugin holds (the last set_model constructed it).
UpdateBeforeQuery ==
    last.op \in {"get_log_like", "calcTS", "inner_fit"} =>
        /\ UpdatePrecedesQueries(last.trace)
        /\ (last.exc = "" /\ plug.theLikeHAWC.pymodel = plug.pymodel) =>
              last.ret.values = last.current

\* C9: once set_model has completed, every change of the value of the
\* CommonNorm nuisance parameter reaches the LikeHAWC object the plugin
\* holds, through a SetCommonNorm call with the new value.
CommonNormOf(p) == OD_Get(p.nuisanceParameters, "CommonNorm")

C9_Step ==
    (plug.instanced /\ CommonNormOf(plug').value # CommonNormOf(plug).value)
    => /\ plug'.theLikeHAWC.commonNorm = CommonNormOf(plug').value
       /\ \E i \in 1..Len(last'.trace) :
             last'.trace[i] = Ev("SetCommonNorm", CommonNormOf(plug').value)

C9_CommonNormPropagated == [][C9_Step]_vars

C9_Witness ==
    /\ created = 2
    /\ plug.instanced
    /\ last.op = "inner_fit"
    /\ CommonNormOf(plug).value = 120
    /\ plug.theLikeHAWC.commonNorm = 120
    /\ plug.theLikeHAWC.id = 2
    /\ Len(CommonNormOf(plug).callbacks) = 2

\* C10: instanced is False after construction and becomes True only in a
\* set_model call that completes without an exception; set_model on a
\* plugin with fullsky and no ROI raises (RuntimeError, once the native
\* object is constructed) and leaves instanced as it was.
C10_Step ==
    /\ plug'.instanced # plug.instanced =>
          /\ plug'.instanced
          /\ created' = created + 1
          /\ last'.op = "set_model"
          /\ last'.exc = ""
    /\ (created' = created + 1 /\ plug.fullsky /\ plug.roi_ra = {}) =>
          /\ last'.op = "set_model"
          /\ last'.exc # ""
          /\ last'.ctorOk => last'.exc = "RuntimeError"
          /\ plug'.instanced = plug.instanced

====
